---- MODULE Spec2Model ----
(***************************************************************************)
(* Model of the authentication core of auth-taller: the in-memory          *)
(* UsersService store, AuthService.register / login / getProfile and the   *)
(* two UsersController routes.  A request handler runs on the single       *)
(* JavaScript thread, so the code between two `await`s is one atomic step; *)
(* register suspends once (bcrypt.hash) and login suspends once            *)
(* (bcrypt.compare), and other requests interleave at those points.        *)
(***************************************************************************)
EXTENDS Integers, Sequences, FiniteSets, Bags, TLC

VARIABLES users, idCounter, now, pending, response, registered

vars == <<users, idCounter, now, pending, response, registered>>

(***************************************************************************)
(* Bounds of the model.                                                    *)
(***************************************************************************)
MaxUsers == 2
MaxClock == 1
MaxPending == 2

(***************************************************************************)
(* Request inputs.  The DTO validation runs before the service, so only    *)
(* valid field values are drawn.  bcrypt reads at most the first 72 bytes  *)
(* of a password while RegisterDto admits up to 255 characters, so a       *)
(* password is kept as its first 72 bytes and whatever follows them.       *)
(***************************************************************************)
Usernames == {"juanperez", "bob"}
Emails == {"juan@test.com", "x@test.com"}

Short == [first72 |-> "miPassword123", rest |-> ""]
Long72 == [first72 |-> "secret-padded-to-72-bytes", rest |-> ""]
Long73 == [first72 |-> "secret-padded-to-72-bytes", rest |-> "x"]

RegisterDto == [username : Usernames, email : Emails, password : {Short, Long72}]
LoginDto == [email : Emails, password : {Short, Long72, Long73}]
UserIds == 1..(MaxUsers + 1)

(* the salt bcrypt.hash draws *)
Salts == {"N9qo8uLOickgx2ZMRZoMye"}

Undefined == [undefined |-> TRUE]

(***************************************************************************)
(* bcrypt (src/unnamed/part_000:136, :268).                                *)
(***************************************************************************)
SaltRounds == 10

BcryptDigest(password, salt) == <<salt, password.first72>>

BcryptHash(password, rounds, salt) ==
    [algo |-> "2b", rounds |-> rounds, salt |-> salt,
     digest |-> BcryptDigest(password, salt)]

BcryptCompare(password, hash) ==
    hash.digest = BcryptDigest(password, hash.salt)

(***************************************************************************)
(* UsersService.                                                           *)
(***************************************************************************)
Min(S) == CHOOSE i \in S : \A j \in S : i <= j

(* faulty variant: the lookup compares the wrong field *)
FindByEmailWrongField(us, email) ==
    LET hits == {i \in 1..Len(us) : us[i].username = email}
    IN  IF hits = {} THEN Undefined ELSE us[Min(hits)]

FindByEmail(us, email) ==
    LET hits == {i \in 1..Len(us) : us[i].email = email}
    IN  IF hits = {} THEN Undefined ELSE us[Min(hits)]

(* faulty variant: the id is taken for a position counted from 0 *)
FindByIdAsIndex(us, id) ==
    LET hits == {i \in 1..Len(us) : i - 1 = id}
    IN  IF hits = {} THEN Undefined ELSE us[Min(hits)]

FindById(us, id) ==
    LET hits == {i \in 1..Len(us) : us[i].id = id}
    IN  IF hits = {} THEN Undefined ELSE us[Min(hits)]

(* faulty variant: nothing is removed *)
WithPassword(user) == user

WithoutPassword(user) ==
    [f \in (DOMAIN user) \ {"password"} |-> user[f]]

(* faulty variant: newest first *)
FindAllReversed(us) ==
    [i \in 1..Len(us) |-> WithoutPassword(us[Len(us) + 1 - i])]

FindAll(us) == [i \in 1..Len(us) |-> WithoutPassword(us[i])]

(* faulty variant: the record is pushed before createdAt is set *)
NewUserWithoutCreatedAt(ctr, userData, createdAt) ==
    [id |-> ctr,
     username |-> userData.username,
     email |-> userData.email,
     password |-> userData.password,
     isActive |-> userData.isActive,
     updatedAt |-> userData.updatedAt]

(* the record create builds *)
NewUser(ctr, userData, createdAt) ==
    [id |-> ctr,
     username |-> userData.username,
     email |-> userData.email,
     password |-> userData.password,
     isActive |-> userData.isActive,
     updatedAt |-> userData.updatedAt,
     createdAt |-> createdAt]

(* faulty variant: the counter is read but not advanced *)
CreateNoIncrement(us, ctr, userData, createdAt) ==
    [newUser |-> NewUser(ctr, userData, createdAt),
     users |-> Append(us, NewUser(ctr, userData, createdAt)),
     idCounter |-> ctr]

(* faulty variant: the counter is advanced twice per account *)
CreateSkipsId(us, ctr, userData, createdAt) ==
    LET newUser == NewUser(ctr, userData, createdAt)
    IN  [newUser |-> newUser,
         users |-> Append(us, newUser),
         idCounter |-> ctr + 2]

(* faulty variant: the account is put at the front (unshift, not push) *)
CreateAtFront(us, ctr, userData, createdAt) ==
    LET newUser == NewUser(ctr, userData, createdAt)
    IN  [newUser |-> newUser,
         users |-> <<newUser>> \o us,
         idCounter |-> ctr + 1]

(* UsersService.create: id from the counter, push, return the record *)
Create(us, ctr, userData, createdAt) ==
    [newUser |-> NewUser(ctr, userData, createdAt),
     users |-> Append(us, NewUser(ctr, userData, createdAt)),
     idCounter |-> ctr + 1]

(***************************************************************************)
(* Responses.                                                              *)
(***************************************************************************)
ConflictException(message) ==
    [ok |-> FALSE, statusCode |-> 409, error |-> "Conflict", message |-> message]

UnauthorizedException(message) ==
    [ok |-> FALSE, statusCode |-> 401, error |-> "Unauthorized", message |-> message]

NotFoundException(message) ==
    [ok |-> FALSE, statusCode |-> 404, error |-> "Not Found", message |-> message]

(* a call suspended in an await: register's bcrypt.hash ("hashing") or     *)
(* login's bcrypt.compare ("comparing", with the account object it found)  *)
Suspended(pc, dto, user) == [pc |-> pc, dto |-> dto, user |-> user]

(* the response a step sends: which operation, its input, what it returned *)
NoResponse == [op |-> "none", dto |-> Undefined, result |-> Undefined]

Response(op, dto, result) == [op |-> op, dto |-> dto, result |-> result]

(***************************************************************************)
(* JwtService.sign as configured for this application: HS256, a            *)
(* process-wide secret, iat = now and exp = iat + 24 hours (in seconds).   *)
(***************************************************************************)
TokenTTL == 86400

JwtSecret == "JWT_SECRET"

JwtSign(payload, t) ==
    LET claims == [sub |-> payload.sub, email |-> payload.email,
                   username |-> payload.username,
                   iat |-> t, exp |-> t + TokenTTL]
    IN  [header |-> [alg |-> "HS256", typ |-> "JWT"],
         payload |-> claims,
         signature |-> <<JwtSecret, claims>>]

(***************************************************************************)
(* AuthService.register, up to the await of bcrypt.hash: the two           *)
(* duplicate checks.  The value is the exception thrown, or Undefined when *)
(* both checks pass.                                                       *)
(***************************************************************************)
(* faulty variant: the username check compares the wrong field *)
FindUsernameWrongField(list, username) ==
    LET hits == {i \in 1..Len(list) : list[i].email = username}
    IN  IF hits = {} THEN Undefined ELSE list[Min(hits)]

FindUsername(list, username) ==
    LET hits == {i \in 1..Len(list) : list[i].username = username}
    IN  IF hits = {} THEN Undefined ELSE list[Min(hits)]

EmailTaken == ConflictException("El email ya está registrado")

UsernameTaken == ConflictException("El nombre de usuario ya está en uso")

(* faulty variant: the two duplicate checks in the other order *)
RegisterCheckUsernameFirst(us, dto) ==
    LET existingUserByEmail == FindByEmail(us, dto.email)
        existingUserByUsername == FindUsername(FindAll(us), dto.username)
    IN  IF existingUserByUsername # Undefined THEN UsernameTaken
        ELSE IF existingUserByEmail # Undefined THEN EmailTaken
        ELSE Undefined

RegisterCheck(us, dto) ==
    LET existingUserByEmail == FindByEmail(us, dto.email)
        existingUserByUsername == FindUsername(FindAll(us), dto.username)
    IN  IF existingUserByEmail # Undefined THEN EmailTaken
        ELSE IF existingUserByUsername # Undefined THEN UsernameTaken
        ELSE Undefined

(* faulty variant: the submitted password is stored *)
RegisterUserDataPlaintext(dto, hashedPassword, updatedAt) ==
    [username |-> dto.username,
     email |-> dto.email,
     password |-> dto.password,
     isActive |-> TRUE,
     updatedAt |-> updatedAt]

(* faulty variant: the account is created deactivated *)
RegisterUserDataInactive(dto, hashedPassword, updatedAt) ==
    [username |-> dto.username,
     email |-> dto.email,
     password |-> hashedPassword,
     isActive |-> FALSE,
     updatedAt |-> updatedAt]

RegisterUserData(dto, hashedPassword, updatedAt) ==
    [username |-> dto.username,
     email |-> dto.email,
     password |-> hashedPassword,
     isActive |-> TRUE,
     updatedAt |-> updatedAt]

(* faulty variant: the created record is returned whole *)
RegisterOkWholeUser(newUser) ==
    [ok |-> TRUE, message |-> "Usuario registrado exitosamente",
     user |-> newUser]

RegisterOk(newUser) ==
    [ok |-> TRUE, message |-> "Usuario registrado exitosamente",
     user |-> WithoutPassword(newUser)]

(***************************************************************************)
(* AuthService.login.                                                      *)
(***************************************************************************)
(* faulty variant: a message of its own for an unknown email *)
LoginEmailUnknown == UnauthorizedException("El email no está registrado")

LoginUserNotFound == UnauthorizedException("Credenciales inválidas")

(* faulty variant: a deactivated account is answered like a wrong password *)
LoginUserInactiveAsInvalid == UnauthorizedException("Credenciales inválidas")

LoginUserInactive ==
    UnauthorizedException("Usuario desactivado. Contacte al administrador.")

LoginPasswordInvalid == UnauthorizedException("Credenciales inválidas")

(* faulty variant: the isActive check is missing *)
LoginLookupNoActiveCheck(us, dto) ==
    LET user == FindByEmail(us, dto.email)
    IN  IF user = Undefined THEN LoginUserNotFound
        ELSE Undefined

LoginLookup(us, dto) ==
    LET user == FindByEmail(us, dto.email)
    IN  IF user = Undefined THEN LoginUserNotFound
        ELSE IF ~user.isActive THEN LoginUserInactive
        ELSE Undefined

(* faulty variant: the subject is the account's position counted from 0 *)
LoginPayloadWrongSub(user) ==
    [sub |-> user.id - 1, email |-> user.email, username |-> user.username]

LoginPayload(user) ==
    [sub |-> user.id, email |-> user.email, username |-> user.username]

LoginOk(user, t) ==
    [ok |-> TRUE, message |-> "Login exitoso",
     access_token |-> JwtSign(LoginPayload(user), t),
     user |-> WithoutPassword(user)]

LoginVerdict(dto, user, isPasswordValid, t) ==
    IF ~isPasswordValid THEN LoginPasswordInvalid ELSE LoginOk(user, t)

(***************************************************************************)
(* AuthService.getProfile and the UsersController routes.                  *)
(***************************************************************************)
GetProfileResult(us, userId) ==
    LET user == FindById(us, userId)
    IN  IF user = Undefined THEN NotFoundException("Usuario no encontrado")
        ELSE WithoutPassword(user)

Init ==
    /\ users = <<>>
    /\ idCounter = 1
    /\ now = 0
    /\ pending = EmptyBag
    /\ response = NoResponse
    /\ registered = {}

RECURSIVE SumCopies(_)

Suspend(call) == pending (+) SetToBag({call})

Resume(call) == pending (-) SetToBag({call})

Hashing(call) == call.pc = "hashing"

Comparing(call) == call.pc = "comparing"

SumCopies(S) ==
    IF S = {} THEN 0
    ELSE LET c == CHOOSE x \in S : TRUE
         IN  CopiesIn(c, pending) + SumCopies(S \ {c})

NumHashing == SumCopies({c \in BagToSet(pending) : Hashing(c)})

(* register, first part: the duplicate checks, then bcrypt.hash is awaited *)
RegisterStartOf(dto) ==
    /\ LET thrown == RegisterCheck(users, dto)
       IN  IF thrown # Undefined
           THEN /\ response' = Response("register", dto, thrown)
                /\ UNCHANGED pending
           ELSE /\ BagCardinality(pending) < MaxPending
                /\ Len(users) + NumHashing < MaxUsers
                /\ pending' = Suspend(Suspended("hashing", dto, Undefined))
                /\ response' = NoResponse
    /\ UNCHANGED <<users, idCounter, now, registered>>

RegisterStart == \E dto \in RegisterDto : RegisterStartOf(dto)

(* how an awaited promise settles *)
Fulfilled(value) ==
    [status |-> "fulfilled", value |-> value, reason |-> Undefined]

Rejected(reason) ==
    [status |-> "rejected", value |-> Undefined, reason |-> reason]

(* the error bcrypt.hash rejects with when hashing fails *)
BcryptError ==
    [ok |-> FALSE, error |-> "Error", message |-> "bcrypt: hashing failed"]

(* faulty variant: the rejection is caught and dropped *)
AwaitNeverThrows(settled) == FALSE

(* `await`: a rejected promise throws out of register *)
AwaitThrows(settled) == settled.status = "rejected"

(* faulty variant: the promise itself is used, not awaited *)
AwaitSkipped(settled) == [promise |-> "pending"]

(* `await`: a fulfilled promise yields its value *)
AwaitValue(settled) == settled.value

(* register, second part: bcrypt.hash has settled.  A rejection leaves     *)
(* register as the call's error; otherwise create and respond.  updatedAt  *)
(* is read by register, createdAt afterwards by create.                    *)
RegisterAfterHash(call, settled, createdAt) ==
    LET dto == call.dto
        hashedPassword == AwaitValue(settled)
        userData == RegisterUserData(dto, hashedPassword, now)
        created == Create(users, idCounter, userData, createdAt)
    IN  /\ Hashing(call)
        /\ pending' = Resume(call)
        /\ IF AwaitThrows(settled)
           THEN /\ response' = Response("register", dto, settled.reason)
                /\ UNCHANGED <<users, idCounter, now, registered>>
           ELSE /\ createdAt <= MaxClock
                /\ now' = createdAt
                /\ idCounter' = created.idCounter
                /\ users' = created.users
                /\ response' = Response("register", dto,
                                        RegisterOk(created.newUser))
                /\ registered' = registered \cup
                       {[id |-> created.newUser.id, username |-> dto.username,
                         email |-> dto.email, password |-> dto.password]}

RegisterFinish ==
    \E call \in BagToSet(pending), salt \in Salts, createdAt \in {now, now + 1} :
        RegisterAfterHash(call,
            Fulfilled(BcryptHash(call.dto.password, SaltRounds, salt)),
            createdAt)

RegisterHashFails ==
    \E call \in BagToSet(pending) :
        RegisterAfterHash(call, Rejected(BcryptError), now)

(* login, first part: lookup and active check, then bcrypt.compare is      *)
(* awaited on the account object found.                                    *)
LoginStartOf(dto) ==
    /\ LET thrown == LoginLookup(users, dto)
       IN  IF thrown # Undefined
           THEN /\ response' = Response("login", dto, thrown)
                /\ UNCHANGED pending
           ELSE /\ BagCardinality(pending) < MaxPending
                /\ pending' = Suspend(Suspended("comparing", dto,
                                          FindByEmail(users, dto.email)))
                /\ response' = NoResponse
    /\ UNCHANGED <<users, idCounter, now, registered>>

LoginStart == \E dto \in LoginDto : LoginStartOf(dto)

(* login, second part: bcrypt.compare has resolved.                        *)
LoginFinish ==
    /\ \E call \in BagToSet(pending) :
         LET dto == call.dto
             user == call.user
             isPasswordValid == BcryptCompare(dto.password, user.password)
         IN  /\ Comparing(call)
             /\ response' = Response("login", dto,
                                LoginVerdict(dto, user, isPasswordValid, now))
             /\ pending' = Resume(call)
    /\ UNCHANGED <<users, idCounter, now, registered>>

GetProfile ==
    /\ \E userId \in UserIds :
         response' = Response("getProfile", [userId |-> userId],
                              GetProfileResult(users, userId))
    /\ UNCHANGED <<users, idCounter, now, pending, registered>>

(* faulty variant: the password is deleted from the stored objects in place *)
ControllerFindAllInPlace ==
    /\ response' = Response("findAll", Undefined, FindAll(users))
    /\ users' = [i \in 1..Len(users) |-> WithoutPassword(users[i])]
    /\ UNCHANGED <<idCounter, now, pending, registered>>

(* GET /users *)
ControllerFindAll ==
    /\ response' = Response("findAll", Undefined, FindAll(users))
    /\ UNCHANGED <<users, idCounter, now, pending, registered>>

(* GET /users/:id: the route parameter is a string, converted by unary + *)
IdParams == {"1", "2", "3", "abc"}

(* stands for NaN: a number that equals no id *)
NaN == -1

UnaryPlus(param) ==
    CASE param = "1" -> 1
      [] param = "2" -> 2
      [] param = "3" -> 3
      [] OTHER -> NaN

ControllerFindOne ==
    /\ \E id \in IdParams :
         response' = Response("findOne", [id |-> id],
                              FindById(users, UnaryPlus(id)))
    /\ UNCHANGED <<users, idCounter, now, pending, registered>>

Tick ==
    /\ now < MaxClock
    /\ now' = now + 1
    /\ response' = NoResponse
    /\ UNCHANGED <<users, idCounter, pending, registered>>

Next ==
    \/ RegisterStart
    \/ RegisterFinish
    \/ RegisterHashFails
    \/ LoginStart
    \/ LoginFinish
    \/ GetProfile
    \/ ControllerFindAll
    \/ ControllerFindOne
    \/ Tick

Spec == Init /\ [][Next]_vars

(***************************************************************************)
(* The same service on a store that already holds one account, active or   *)
(* deactivated.  register always stores isActive = TRUE and the service's  *)
(* deactivate method exists only as a commented-out sketch                 *)
(* (users.service.ts:229-241), so isActive is cleared only from outside,   *)
(* on the stored object that findByEmail / findById hand out.              *)
(***************************************************************************)
SeedUsers ==
    { NewUser(1, [RegisterUserData(dto, BcryptHash(dto.password, SaltRounds, salt), 0)
                     EXCEPT !.isActive = active], 0) :
        dto \in RegisterDto, salt \in Salts, active \in BOOLEAN }

InitSeeded ==
    /\ \E seed \in SeedUsers : users = <<seed>>
    /\ idCounter = 2
    /\ now = 0
    /\ pending = EmptyBag
    /\ response = NoResponse
    /\ registered = {}

SpecSeeded == InitSeeded /\ [][Next]_vars

(***************************************************************************)
(* Properties.                                                             *)
(***************************************************************************)
Indices == 1..Len(users)

RegisteredEmails == {r.email : r \in registered}

RegisteredUsernames == {r.username : r \in registered}

DuplicateEmail ==
    [ok |-> FALSE, statusCode |-> 409, error |-> "Conflict",
     message |-> "El email ya está registrado"]

DuplicateUsername ==
    [ok |-> FALSE, statusCode |-> 409, error |-> "Conflict",
     message |-> "El nombre de usuario ya está en uso"]

InvalidCredentials ==
    [ok |-> FALSE, statusCode |-> 401, error |-> "Unauthorized",
     message |-> "Credenciales inválidas"]

StoreUntouched ==
    /\ users' = users
    /\ idCounter' = idCounter
    /\ pending' = pending

(* the account login reads for an email: the first one stored under it *)
StoredUnder(email) ==
    users[Min({i \in Indices : users[i].email = email})]

NoneStoredUnder(email) == \A i \in Indices : users[i].email # email

\* C1: under any interleaving of register calls, no two accounts in the
\* store share an email.
EmailsUnique ==
    \A i, j \in Indices : i # j => users[i].email # users[j].email

\* C2: under any interleaving of register calls, no two accounts in the
\* store share a username.
UsernamesUnique ==
    \A i, j \in Indices : i # j => users[i].username # users[j].username

\* C3: once a register call has succeeded with email e, a register call
\* made afterwards with email e is answered DuplicateEmail and leaves the
\* store as it was.
LaterSameEmailRejected ==
    [][\A dto \in RegisterDto :
          (dto.email \in RegisteredEmails /\ RegisterStartOf(dto)) =>
              /\ response' = Response("register", dto, DuplicateEmail)
              /\ StoreUntouched]_vars

LaterSameEmailRejectedWitness ==
    /\ response.op = "register"
    /\ response.dto.email \in RegisteredEmails
    /\ response.result = DuplicateEmail
    /\ response.dto.username \notin RegisteredUsernames

\* C4: once a register call has succeeded with username u, a register call
\* made afterwards with username u and an email that is not in the store is
\* answered DuplicateUsername and leaves the store as it was.
LaterSameUsernameRejected ==
    [][\A dto \in RegisterDto :
          (/\ dto.username \in RegisteredUsernames
           /\ NoneStoredUnder(dto.email)
           /\ RegisterStartOf(dto)) =>
              /\ response' = Response("register", dto, DuplicateUsername)
              /\ StoreUntouched]_vars

LaterSameUsernameRejectedWitness ==
    /\ response.op = "register"
    /\ response.dto.username \in RegisteredUsernames
    /\ NoneStoredUnder(response.dto.email)
    /\ response.result = DuplicateUsername

\* C5: a register call whose email and whose username are both held by
\* stored accounts is answered DuplicateEmail, not DuplicateUsername.
EmailCollisionReportedFirst ==
    [][\A dto \in RegisterDto :
          (/\ \E i \in Indices : users[i].email = dto.email
           /\ \E j \in Indices : users[j].username = dto.username
           /\ RegisterStartOf(dto)) =>
              /\ response'.result = DuplicateEmail
              /\ response'.result # DuplicateUsername]_vars

(* both collide, and with two different accounts *)
EmailCollisionReportedFirstWitness ==
    /\ response.op = "register"
    /\ response.result = DuplicateEmail
    /\ \E i, j \in Indices :
          /\ i # j
          /\ users[i].email = response.dto.email
          /\ users[i].username # response.dto.username
          /\ users[j].username = response.dto.username
          /\ users[j].email # response.dto.email

\* C6: account ids are positive integers, strictly increasing in insertion
\* order (hence pairwise distinct), and the first account created has id 1.
IdsStrictlyIncreasing ==
    /\ \A i \in Indices : users[i].id \in Nat /\ users[i].id > 0
    /\ \A i, j \in Indices : i < j => users[i].id < users[j].id
    /\ Len(users) > 0 => users[1].id = 1

IdsStrictlyIncreasingWitness ==
    /\ Len(users) >= 2
    /\ users[1].id # users[2].id

\* C7: a login with an email no account is stored under, and a login with
\* the email of an active account and a password that does not verify, get
\* the same failure: Unauthorized with the message of InvalidCredentials.
SameFailureForUnknownEmailAndWrongPassword ==
    response.op = "login" =>
        LET dto == response.dto
        IN  (\/ NoneStoredUnder(dto.email)
             \/ /\ StoredUnder(dto.email).isActive
                /\ ~BcryptCompare(dto.password, StoredUnder(dto.email).password))
            => response.result = InvalidCredentials

(* the wrong-password case, in a store where an unknown email exists too *)
SameFailureWitness ==
    /\ response.op = "login"
    /\ ~NoneStoredUnder(response.dto.email)
    /\ StoredUnder(response.dto.email).isActive
    /\ ~BcryptCompare(response.dto.password,
                      StoredUnder(response.dto.email).password)
    /\ response.result = InvalidCredentials
    /\ \E e \in Emails : NoneStoredUnder(e)

\* C8: login succeeds exactly when some stored account has the email, is
\* active and its hash verifies the password; and after a successful
\* register(u, e, p), login(e, p) succeeds with the id given at registration
\* and username u, while login(e, p2) with p2 # p fails with
\* InvalidCredentials.
LoginSucceedsExactlyForRegisteredCredentials ==
    response.op = "login" =>
        LET dto == response.dto
        IN  /\ response.result.ok <=>
                  \E i \in Indices :
                      /\ users[i].email = dto.email
                      /\ users[i].isActive
                      /\ BcryptCompare(dto.password, users[i].password)
            /\ \A r \in registered :
                  r.email = dto.email =>
                      IF dto.password = r.password
                      THEN /\ response.result.ok
                           /\ response.result.user.id = r.id
                           /\ response.result.user.username = r.username
                      ELSE response.result = InvalidCredentials

\* C9: for an account whose isActive is false, login fails and issues no
\* token, also when the password is the right one.
InactiveAccountCannotLogin ==
    response.op = "login" =>
        \A i \in Indices :
            (users[i].email = response.dto.email /\ ~users[i].isActive) =>
                /\ ~response.result.ok
                /\ "access_token" \notin DOMAIN response.result

InactiveAccountCannotLoginWitness ==
    /\ response.op = "login"
    /\ ~NoneStoredUnder(response.dto.email)
    /\ ~StoredUnder(response.dto.email).isActive
    /\ BcryptCompare(response.dto.password,
                     StoredUnder(response.dto.email).password)
    /\ ~response.result.ok

\* C10: the token of a successful login carries the id, email and username
\* of the account stored under the login email as sub, email and username,
\* and its exp is 24 hours (86400 seconds) after its iat.
TokenClaimsMatchAccount ==
    (response.op = "login" /\ response.result.ok) =>
        LET claims == response.result.access_token.payload
            account == StoredUnder(response.dto.email)
        IN  /\ claims.sub = account.id
            /\ claims.email = account.email
            /\ claims.username = account.username
            /\ claims.exp = claims.iat + 24 * 60 * 60

(* a token issued for the second account, after the clock has moved *)
TokenClaimsMatchAccountWitness ==
    /\ response.op = "login"
    /\ response.result.ok
    /\ response.result.access_token.payload.sub = 2
    /\ response.result.access_token.payload.iat > 0

UserFields ==
    {"id", "username", "email", "password", "isActive", "createdAt", "updatedAt"}

PublicFields == UserFields \ {"password"}

(* user is the stored account minus its password, nothing else changed *)
IsPublicCopyOf(user, account) ==
    /\ DOMAIN user = PublicFields
    /\ \A f \in PublicFields : user[f] = account[f]

(* the stored account with this id; ids are distinct *)
StoredWithId(id) == users[Min({i \in Indices : users[i].id = id})]

IsFailure(result) == "statusCode" \in DOMAIN result

\* C11: the success payloads of register, login and getProfile carry no
\* password field: the returned user is the stored account with the
\* password removed and every other field as stored.
SuccessPayloadsOmitPassword ==
    /\ (response.op = "register" /\ response.result.ok) =>
           IsPublicCopyOf(response.result.user,
                          StoredWithId(response.result.user.id))
    /\ (response.op = "login" /\ response.result.ok) =>
           /\ IsPublicCopyOf(response.result.user,
                             StoredUnder(response.dto.email))
           /\ "password" \notin DOMAIN response.result.access_token.payload
    /\ (response.op = "getProfile" /\ ~IsFailure(response.result)) =>
           IsPublicCopyOf(response.result, StoredWithId(response.dto.userId))

SuccessPayloadsOmitPasswordWitness ==
    /\ response.op = "register"
    /\ response.result.ok
    /\ response.result.user.id = 2
    /\ "password" \in DOMAIN users[2]

\* C12: no response carries the password field, the by-id lookup
\* GET /users/:id included: for every stored account its response omits
\* the password.
FindOneOmitsPassword ==
    (response.op = "findOne" /\ response.result # Undefined) =>
        /\ "password" \notin DOMAIN response.result
        /\ IsPublicCopyOf(response.result, StoredWithId(response.result.id))

\* C13: no element that listAll (findAll) returns has a password field,
\* however many accounts are stored.
FindAllOmitsPassword ==
    response.op = "findAll" =>
        \A i \in 1..Len(response.result) :
            "password" \notin DOMAIN response.result[i]

FindAllOmitsPasswordWitness ==
    /\ response.op = "findAll"
    /\ Len(response.result) = MaxUsers
    /\ \A i \in Indices : "password" \in DOMAIN users[i]

\* C14: listAll returns one entry per stored account, in insertion order,
\* each equal to its account on every field but the password.
FindAllListsEveryAccountInOrder ==
    response.op = "findAll" =>
        /\ Len(response.result) = Len(users)
        /\ \A i \in Indices :
              \A f \in PublicFields : response.result[i][f] = users[i][f]
        /\ \A i, j \in 1..Len(response.result) :
              i < j => response.result[i].id < response.result[j].id

FindAllListsEveryAccountInOrderWitness ==
    /\ response.op = "findAll"
    /\ Len(response.result) >= 2
    /\ response.result[1].username # response.result[2].username

\* C15: getProfile(id) signals AccountNotFound exactly when no stored
\* account has the id; otherwise it returns the account with that id,
\* without its password.
GetProfileFindsExactlyStoredIds ==
    response.op = "getProfile" =>
        IF \A i \in Indices : users[i].id # response.dto.userId
        THEN response.result =
                 [ok |-> FALSE, statusCode |-> 404, error |-> "Not Found",
                  message |-> "Usuario no encontrado"]
        ELSE /\ ~IsFailure(response.result)
             /\ response.result.id = response.dto.userId
             /\ \E i \in Indices : IsPublicCopyOf(response.result, users[i])

(* a hit on the second account while a third id is still unassigned *)
GetProfileFindsExactlyStoredIdsWitness ==
    /\ response.op = "getProfile"
    /\ ~IsFailure(response.result)
    /\ response.result.id = 2

\* C16: the stored password of every account created through register is
\* the output of the hasher for the submitted password, and never the
\* submitted plaintext itself.
StoredPasswordIsHashNotPlaintext ==
    \A r \in registered :
        /\ \E i \in Indices : users[i].id = r.id
        /\ StoredWithId(r.id).password # r.password
        /\ \E salt \in Salts :
              StoredWithId(r.id).password =
                  [algo |-> "2b", rounds |-> 10, salt |-> salt,
                   digest |-> <<salt, r.password.first72>>]

(* two accounts registered with the same plaintext *)
StoredPasswordIsHashNotPlaintextWitness ==
    \E r1, r2 \in registered : r1.id # r2.id /\ r1.password = r2.password

IsLoginSuccess(resp) ==
    /\ resp.op = "login"
    /\ resp.result.ok

\* C17: two token issuances never produce identical tokens: a successful
\* login that directly follows another successful login, for the same
\* account or not, returns a different access token.
TokensNeverIdentical ==
    [][(IsLoginSuccess(response) /\ IsLoginSuccess(response')) =>
          response'.result.access_token # response.result.access_token]_vars

IsBcryptHash(h) ==
    /\ DOMAIN h = {"algo", "rounds", "salt", "digest"}
    /\ h.algo = "2b"
    /\ h.rounds = 10
    /\ h.salt \in Salts

\* C18: within register the account is created only once hashing has
\* completed: every stored account holds a finished bcrypt hash, never a
\* pending promise or a placeholder, and accounts exist only for register
\* calls that have run to their end.
AccountCreatedOnlyAfterHashing ==
    /\ \A i \in Indices : IsBcryptHash(users[i].password)
    /\ Len(users) = Cardinality(registered)
    /\ \A i \in Indices : \E r \in registered : r.id = users[i].id

(* an account is stored while another register call is still hashing *)
AccountCreatedOnlyAfterHashingWitness ==
    /\ Len(users) >= 1
    /\ NumHashing >= 1

\* C19: if the hashing step of register fails, the call fails with that
\* error (no success payload), no account is added and no id is consumed.
HashFailurePropagates ==
    [][\A call \in BagToSet(pending) :
          RegisterAfterHash(call, Rejected(BcryptError), now) =>
              /\ response' = Response("register", call.dto,
                     [ok |-> FALSE, error |-> "Error",
                      message |-> "bcrypt: hashing failed"])
              /\ users' = users
              /\ idCounter' = idCounter
              /\ registered' = registered]_vars

(* the failure arrives when an account is stored and an id has been used *)
HashFailurePropagatesWitness ==
    /\ response.op = "register"
    /\ response.result.ok = FALSE
    /\ response.result.error = "Error"
    /\ Len(users) >= 1
    /\ idCounter = Len(users) + 1

IsWholeAccount(account) ==
    /\ DOMAIN account = UserFields
    /\ account.id \in Nat \ {0}
    /\ account.username \in Usernames
    /\ account.email \in Emails
    /\ account.isActive \in BOOLEAN
    /\ account.createdAt \in 0..MaxClock
    /\ account.updatedAt \in 0..MaxClock

\* C20: no read sees a partially constructed account: every account in the
\* store, and every account a read (findByEmail in login, findById,
\* findAll) hands out, has all of its fields set.
ReadsSeeWholeAccounts ==
    /\ \A i \in Indices : IsWholeAccount(users[i])
    /\ \A call \in BagToSet(pending) :
          Comparing(call) => IsWholeAccount(call.user)
    /\ (response.op = "findOne" /\ response.result # Undefined) =>
          IsWholeAccount(response.result)
    /\ response.op = "findAll" =>
          \A i \in 1..Len(response.result) :
              DOMAIN response.result[i] = PublicFields
    /\ (response.op = "getProfile" /\ ~IsFailure(response.result)) =>
          DOMAIN response.result = PublicFields

(* findById answers with an account while a register call is in flight *)
ReadsSeeWholeAccountsWitness ==
    /\ response.op = "findOne"
    /\ response.result # Undefined
    /\ NumHashing >= 1

AccountDisabled ==
    [ok |-> FALSE, statusCode |-> 401, error |-> "Unauthorized",
     message |-> "Usuario desactivado. Contacte al administrador."]

\* C21: in login the active check comes before the password check: for a
\* stored account whose isActive is false, login answers AccountDisabled
\* whether the password is right or wrong, never InvalidCredentials.
ActiveCheckPrecedesPasswordCheck ==
    (response.op = "login" /\ ~NoneStoredUnder(response.dto.email)) =>
        (~StoredUnder(response.dto.email).isActive =>
            /\ response.result = AccountDisabled
            /\ response.result # InvalidCredentials)

(* a deactivated account is refused on a wrong password *)
ActiveCheckPrecedesPasswordCheckWitness ==
    /\ response.op = "login"
    /\ ~NoneStoredUnder(response.dto.email)
    /\ ~StoredUnder(response.dto.email).isActive
    /\ ~BcryptCompare(response.dto.password,
                      StoredUnder(response.dto.email).password)
    /\ response.result = AccountDisabled

\* C22: an account in the store is never removed and none of its fields
\* changes under any later operation; the store only grows, by appending
\* at the end.
StoreOnlyAppends ==
    [][/\ Len(users') \in {Len(users), Len(users) + 1}
       /\ \A i \in Indices : users'[i] = users[i]]_vars

(* the store has grown past its first account and a read has answered *)
StoreOnlyAppendsWitness ==
    /\ Len(users) >= 2
    /\ response.op \in {"login", "getProfile", "findOne", "findAll"}

\* C23: for every stored account, updatedAt is not earlier than createdAt.
UpdatedAtNotBeforeCreatedAt ==
    \A i \in Indices : users[i].updatedAt >= users[i].createdAt

\* C24: under any interleaving of register calls, successful or failed,
\* the id counter is the number of stored accounts plus one and the account
\* at insertion position k has id k.
IdsContiguous ==
    /\ idCounter = Len(users) + 1
    /\ \A k \in Indices : users[k].id = k

(* a registration is rejected when two accounts are already stored *)
IdsContiguousWitness ==
    /\ Len(users) >= 2
    /\ response.op = "register"
    /\ ~response.result.ok

(* a step of login, getProfile, findById or findAll: one of them answers, *)
(* or a login call is suspended on bcrypt.compare                         *)
ReadStep ==
    \/ response'.op \in {"login", "getProfile", "findOne", "findAll"}
    \/ \E call \in BagToSet(pending') :
          /\ Comparing(call)
          /\ CopiesIn(call, pending') > CopiesIn(call, pending)

\* C25: login, getProfile, findByEmail, findById and findAll leave the
\* store as it was, whether they succeed or fail and also while a register
\* call is in flight: the accounts and the id counter do not change.
ReadsLeaveStoreUnchanged ==
    [][ReadStep => (users' = users /\ idCounter' = idCounter)]_vars

(* a failed read answers while a register call is in flight *)
ReadsLeaveStoreUnchangedWitness ==
    /\ response.op = "getProfile"
    /\ IsFailure(response.result)
    /\ NumHashing >= 1
    /\ Len(users) >= 1

\* C26: in every state reached through register, login, getProfile and the
\* lookups, every stored account has isActive true, so login never answers
\* AccountDisabled: every login failure is InvalidCredentials.
EveryAccountActive ==
    /\ \A i \in Indices : users[i].isActive
    /\ (response.op = "login" /\ ~response.result.ok) =>
          response.result = InvalidCredentials

(* login fails for a stored account *)
EveryAccountActiveWitness ==
    /\ response.op = "login"
    /\ ~response.result.ok
    /\ ~NoneStoredUnder(response.dto.email)
====
